---- MODULE Spec2Model ----
(***************************************************************************)
(* DNSPod record monitor (main.py): the process loads config.json, then    *)
(* loops over check_for_changes, which fetches the record list, builds the *)
(* state of the monitored names, compares it with previous_records_state   *)
(* and sends one Telegram message per changed name.                        *)
(***************************************************************************)
EXTENDS Integers, Sequences, FiniteSets, TLC

\* Longest record list a fetch returns in the model.
MaxRecords == 2
\* Longest run of consecutive failed fetches in the model.
MaxFails == 2

\* ------------------------------------------------------------------------
\* Configuration (config.json)

required_keys == {"domain", "token", "names", "telegram_bot_token", "telegram_chat_id"}

ConfigKeys == required_keys \cup {"check_interval_seconds"}

DefaultInterval == 10

FileInterval == 30

domain == "example.com"

names_to_monitor == {"api", "www"}

\* What config.json can be: absent, not JSON, or a JSON object with some keys.
ConfigFiles ==
    {[kind |-> "absent", keys |-> {}], [kind |-> "not_json", keys |-> {}]}
        \cup {[kind |-> "json", keys |-> ks] : ks \in SUBSET ConfigKeys}

\* load_config without the loop over required_keys.
load_config_NoKeyCheck(file) ==
    IF file.kind = "absent" THEN [exit |-> TRUE, interval |-> 0]
    ELSE IF file.kind = "not_json" THEN [exit |-> TRUE, interval |-> 0]
    ELSE IF "check_interval_seconds" \notin file.keys
         THEN [exit |-> FALSE, interval |-> DefaultInterval]
         ELSE [exit |-> FALSE, interval |-> FileInterval]

\* load_config: the configuration, or SystemExit(1).
load_config(file) ==
    IF file.kind = "absent" THEN [exit |-> TRUE, interval |-> 0]
    ELSE IF file.kind = "not_json" THEN [exit |-> TRUE, interval |-> 0]
    ELSE IF ~(required_keys \subseteq file.keys) THEN [exit |-> TRUE, interval |-> 0]
    ELSE IF "check_interval_seconds" \notin file.keys
         THEN [exit |-> FALSE, interval |-> DefaultInterval]
         ELSE [exit |-> FALSE, interval |-> FileInterval]

\* ------------------------------------------------------------------------
\* Records

\* Python's order on the strings of the model (code point order).
StringOrder == <<"1.1.1.1", "2.2.2.2", "A", "CNAME", "x.example.com">>

Rank(s) == CHOOSE i \in 1..Len(StringOrder) : StringOrder[i] = s

\* The well-formed records the provider can list for the monitored names.
MonitoredRecords ==
    {[name |-> "www", type |-> "A", value |-> "1.1.1.1"],
     [name |-> "www", type |-> "A", value |-> "2.2.2.2"],
     [name |-> "api", type |-> "A", value |-> "1.1.1.1"],
     [name |-> "api", type |-> "CNAME", value |-> "x.example.com"]}

\* The records the provider can list: those, a record of a name that is not
\* monitored, and records that lack a field.
RawRecords ==
    MonitoredRecords
        \cup {[name |-> "mail", type |-> "A", value |-> "1.1.1.1"]}
        \cup {[name |-> "www", value |-> "1.1.1.1"], [name |-> "mail"]}

RecordLists == UNION {[1..k -> RawRecords] : k \in 0..MaxRecords}

FailureKinds == {"network_error", "http_status", "not_json", "api_status"}

\* What the record-listing call can meet.
Responses ==
    {[kind |-> k, records |-> <<>>] : k \in FailureKinds}
        \cup {[kind |-> "ok", records |-> rs] : rs \in RecordLists}

\* get_dnspod_records with "return []" where the code has "return None".
get_dnspod_records_EmptyOnError(response) ==
    IF response.kind = "ok"
    THEN [none |-> FALSE, records |-> response.records]
    ELSE [none |-> FALSE, records |-> <<>>]

\* get_dnspod_records: the record list, or None.
get_dnspod_records(response) ==
    IF response.kind = "ok"
    THEN [none |-> FALSE, records |-> response.records]
    ELSE [none |-> TRUE, records |-> <<>>]

\* The empty dict.
EmptyState == [n \in {} |-> <<>>]

\* dict.get(name, [])
Get(state, name) == IF name \in DOMAIN state THEN state[name] ELSE <<>>

\* RaisesKeyError with type and value read before the name is tested.
RaisesKeyErrorAnyName(all_records) ==
    \E i \in 1..Len(all_records) :
        ~({"name", "type", "value"} \subseteq DOMAIN all_records[i])

\* record['name'], record['type'] or record['value'] raises KeyError.
RaisesKeyError(all_records) ==
    \E i \in 1..Len(all_records) :
        \/ "name" \notin DOMAIN all_records[i]
        \/ /\ all_records[i].name \in names_to_monitor
           /\ ~({"type", "value"} \subseteq DOMAIN all_records[i])

\* AddRecord that skips a record the list already holds.
AddRecordDedup(state, record) ==
    IF record.name \in names_to_monitor
    THEN LET subdomain == record.name
             record_info == [type |-> record.type, value |-> record.value]
         IN  [n \in DOMAIN state \cup {subdomain} |->
                 IF n = subdomain
                 THEN IF \E i \in 1..Len(Get(state, subdomain)) :
                             Get(state, subdomain)[i] = record_info
                      THEN state[n]
                      ELSE Append(Get(state, subdomain), record_info)
                 ELSE state[n]]
    ELSE state

\* One iteration of the loop that builds current_records_state.
AddRecord(state, record) ==
    IF record.name \in names_to_monitor
    THEN LET subdomain == record.name
             record_info == [type |-> record.type, value |-> record.value]
         IN  [n \in DOMAIN state \cup {subdomain} |->
                 IF n = subdomain THEN Append(Get(state, subdomain), record_info)
                                  ELSE state[n]]
    ELSE state

RECURSIVE BuildFrom(_, _)
BuildFrom(all_records, state) ==
    IF all_records = <<>> THEN state
    ELSE BuildFrom(Tail(all_records), AddRecord(state, Head(all_records)))

BuildState(all_records) == BuildFrom(all_records, EmptyState)

\* The sort key (x['type'], x['value']) compared as Python compares tuples.
KeyLess(a, b) ==
    \/ Rank(a.type) < Rank(b.type)
    \/ a.type = b.type /\ Rank(a.value) < Rank(b.value)

\* Stable insertion of r into a sorted list.
RECURSIVE Insert(_, _)
Insert(r, list) ==
    IF list = <<>> THEN <<r>>
    ELSE IF KeyLess(r, Head(list)) THEN <<r>> \o list
    ELSE <<Head(list)>> \o Insert(r, Tail(list))

RECURSIVE SortFrom(_, _)
SortFrom(list, acc) ==
    IF list = <<>> THEN acc ELSE SortFrom(Tail(list), Insert(Head(list), acc))

\* The first half of check_for_changes on one response: the fetch, then the
\* loop that builds current_records_state (or raises KeyError).
FetchAndBuild(response) ==
    LET all_records == get_dnspod_records(response)
        key_error == ~all_records.none /\ RaisesKeyError(all_records.records)
    IN  [kind |-> response.kind,
         none |-> all_records.none,
         key_error |-> key_error,
         current |-> IF all_records.none \/ key_error THEN EmptyState
                     ELSE BuildState(all_records.records)]

FetchResults == {FetchAndBuild(response) : response \in Responses}

\* sorted left out: the list as it is.
SortedNot(records_list) == records_list

\* sorted(records_list, key=lambda x: (x['type'], x['value']))
Sorted(records_list) == SortFrom(records_list, <<>>)

\* format_records_for_display: the text as its lines.
format_records_for_display(records_list) ==
    IF records_list = <<>> THEN <<[text |-> "无"]>>
    ELSE LET sorted_records == Sorted(records_list)
         IN  [i \in 1..Len(sorted_records) |->
                 [text |-> "record", type |-> sorted_records[i].type,
                  value |-> sorted_records[i].value]]

\* Message with the old and the new list exchanged.
MessageSwapped(name, old_list, new_list) ==
    [full_domain |-> <<name, domain>>,
     old |-> format_records_for_display(new_list),
     new |-> format_records_for_display(old_list)]

\* The notification text of one changed name.
Message(name, old_list, new_list) ==
    [full_domain |-> <<name, domain>>,
     old |-> format_records_for_display(old_list),
     new |-> format_records_for_display(new_list)]

\* The first-run test left out.
IsFirstRunNever(previous) == FALSE

\* if not previous_records_state
IsFirstRun(previous) == DOMAIN previous = {}

\* if current_records_state != previous_records_state
StateChanged(current, previous) == current # previous

\* The names of the current state only.
AllMonitoredNamesCurrentOnly(previous, current) == DOMAIN current

\* set(previous_records_state.keys()) | set(current_records_state.keys())
AllMonitoredNames(previous, current) == DOMAIN previous \cup DOMAIN current

\* The per-name comparison left out: every name is notified.
ListsDifferAlways(old_list, new_list) == TRUE

\* if old_list != new_list
ListsDiffer(old_list, new_list) == old_list # new_list

\* The for loop over the names, in the order the set yields them: the
\* messages handed to send_telegram_message.
RECURSIVE NotifyLoop(_, _, _)
NotifyLoop(order, previous, current) ==
    IF order = <<>> THEN <<>>
    ELSE LET name == Head(order)
             old_list == Sorted(Get(previous, name))
             new_list == Sorted(Get(current, name))
             rest == NotifyLoop(Tail(order), previous, current)
         IN  IF ListsDiffer(old_list, new_list)
             THEN <<Message(name, old_list, new_list)>> \o rest
             ELSE rest

\* The orders in which a set of names can be iterated.
Orders(S) ==
    {o \in [1..Cardinality(S) -> S] : \A i, j \in 1..Cardinality(S) : i # j => o[i] # o[j]}

\* What the sendMessage call can meet: status 200 with "ok": true, another
\* answer of the API, or a network error.
NotifierResponses == {"ok", "rejected", "network_error"}

\* send_telegram_message without its try/except: a network error propagates.
send_telegram_message_Raises(response) ==
    IF response = "ok" THEN [raised |-> FALSE, log |-> <<"sent">>]
    ELSE IF response = "rejected" THEN [raised |-> FALSE, log |-> <<"failed">>]
    ELSE [raised |-> TRUE, log |-> <<>>]

\* send_telegram_message: the lines it prints, and whether it raises.
send_telegram_message(response) ==
    IF response = "ok" THEN [raised |-> FALSE, log |-> <<"sent">>]
    ELSE IF response = "rejected" THEN [raised |-> FALSE, log |-> <<"failed">>]
    ELSE [raised |-> FALSE, log |-> <<"network_error">>]

\* previous_records_state = current_records_state, in the first-run branch
InitialisedState(current) == current

\* The update done name by name: the names of current are overwritten, the
\* names that current lacks keep their old lists.
UpdatedStateMerged(previous, current) ==
    [n \in DOMAIN previous \cup DOMAIN current |->
        IF n \in DOMAIN current THEN current[n] ELSE previous[n]]

\* The update after the notifications left out.
UpdatedStateKept(previous, current) == previous

\* previous_records_state = current_records_state, after the notifications
UpdatedState(previous, current) == current

\* ------------------------------------------------------------------------
\* State

VARIABLES
    pc,                     \* "load", "loop" or "exit"
    exit_status,            \* the status of sys.exit, -1 while running
    interval,               \* config['check_interval_seconds'], 0 before load
    previous_records_state, \* the module-level dict
    fetch,                  \* what the last cycle's fetch met, "none" before
    outcome,                \* the branch the last cycle ended in
    old_state,              \* previous_records_state when the last cycle began
    current_records_state,  \* the dict the last cycle built
    sent,                   \* the messages the last cycle sent, in order
    notifier,               \* what each of these sendMessage calls met
    notify_log,             \* the lines send_telegram_message printed for them
    all_records,            \* the value get_dnspod_records returned
    position,               \* the records of all_records the build loop has done
    todo,                   \* the names the for loop has still to visit
    config_file,            \* the config.json that load_config found
    reported,               \* per name, the records the user was last told
    had_success,            \* a cycle before the last one fetched and built
    prior_snapshot,         \* the dict built by the latest such cycle
    fails                   \* consecutive failed fetches up to now

vars == <<pc, exit_status, interval, previous_records_state, fetch, outcome,
          old_state, current_records_state, sent, notifier, notify_log, all_records,
          position, todo, config_file, reported, had_success, prior_snapshot, fails>>

\* The variables that only the step-by-step specification of a cycle follows.
StepVars == <<notifier, notify_log, all_records, position, todo>>

\* The last cycle fetched the records and built its dict.
Succeeded == outcome \in {"first_run", "changed", "unchanged"}

Init ==
    /\ pc = "load"
    /\ exit_status = -1
    /\ interval = 0
    /\ previous_records_state = EmptyState
    /\ fetch = "none"
    /\ outcome = "none"
    /\ old_state = EmptyState
    /\ current_records_state = EmptyState
    /\ sent = <<>>
    /\ notifier = <<>>
    /\ notify_log = <<>>
    /\ all_records = [none |-> TRUE, records |-> <<>>]
    /\ position = 0
    /\ todo = <<>>
    /\ config_file = [kind |-> "unread", keys |-> {}]
    /\ reported = [n \in names_to_monitor |-> <<>>]
    /\ had_success = FALSE
    /\ prior_snapshot = EmptyState
    /\ fails = 0

\* config = load_config()
LoadConfig ==
    /\ pc = "load"
    /\ \E file \in ConfigFiles :
         LET config == load_config(file)
         IN  /\ pc' = IF config.exit THEN "exit" ELSE "loop"
             /\ exit_status' = IF config.exit THEN 1 ELSE -1
             /\ interval' = config.interval
             /\ config_file' = file
    /\ UNCHANGED <<previous_records_state, fetch, outcome, old_state,
                   current_records_state, sent, StepVars, reported, had_success,
                   prior_snapshot, fails>>

\* The records the user has been told for each name once the cycle is over:
\* the dict of the first cycle that fetched, then the new list of each message.
Told(first, current, messages) ==
    [n \in names_to_monitor |->
        IF first THEN Sorted(Get(current, n))
        ELSE IF \E i \in 1..Len(messages) : messages[i].full_domain[1] = n
             THEN Sorted(Get(current, n))
             ELSE reported[n]]

\* What one cycle records about the cycles before it.
History(kind) ==
    /\ fetch' = kind
    /\ old_state' = previous_records_state
    /\ had_success' = (had_success \/ Succeeded)
    /\ prior_snapshot' = IF Succeeded THEN current_records_state ELSE prior_snapshot

\* One iteration of the main loop: check_for_changes(config), then sleep.
check_for_changes ==
    /\ pc = "loop"
    /\ \E built \in FetchResults :
         /\ History(built.kind)
         /\ IF built.none
            THEN /\ fails < MaxFails
                 /\ fails' = fails + 1
                 /\ outcome' = "fetch_failed"
                 /\ current_records_state' = EmptyState
                 /\ sent' = <<>>
                 /\ UNCHANGED <<pc, exit_status, previous_records_state, reported>>
            ELSE IF built.key_error
            THEN /\ fails' = 0
                 /\ outcome' = "fault"
                 /\ current_records_state' = EmptyState
                 /\ sent' = <<>>
                 /\ pc' = "exit"
                 /\ exit_status' = 1
                 /\ UNCHANGED <<previous_records_state, reported>>
            ELSE /\ fails' = 0
                 /\ current_records_state' = built.current
                 /\ UNCHANGED <<pc, exit_status>>
                 /\ IF IsFirstRun(previous_records_state)
                    THEN /\ outcome' = "first_run"
                         /\ sent' = <<>>
                         /\ previous_records_state' = InitialisedState(built.current)
                    ELSE IF StateChanged(built.current, previous_records_state)
                    THEN /\ outcome' = "changed"
                         /\ \E order \in Orders(AllMonitoredNames(previous_records_state, built.current)) :
                              sent' = NotifyLoop(order, previous_records_state, built.current)
                         /\ previous_records_state' =
                                UpdatedState(previous_records_state, built.current)
                    ELSE /\ outcome' = "unchanged"
                         /\ sent' = <<>>
                         /\ UNCHANGED previous_records_state
                 /\ reported' = Told(~(had_success \/ Succeeded), built.current, sent')
    /\ UNCHANGED <<interval, config_file, StepVars>>

\* except KeyboardInterrupt: sys.exit(0)
KeyboardInterrupt ==
    /\ pc = "loop"
    /\ pc' = "exit"
    /\ exit_status' = 0
    /\ UNCHANGED <<interval, config_file, previous_records_state, fetch, outcome,
                   old_state, current_records_state, sent, StepVars, reported,
                   had_success, prior_snapshot, fails>>

Next == LoadConfig \/ check_for_changes \/ KeyboardInterrupt

Spec == Init /\ [][Next]_vars

TypeOK ==
    /\ pc \in {"load", "loop", "exit"}
    /\ exit_status \in {-1, 0, 1}
    /\ interval \in {0, DefaultInterval, FileInterval}
    /\ fails \in 0..MaxFails
    /\ had_success \in BOOLEAN
    /\ DOMAIN previous_records_state \subseteq names_to_monitor

\* ------------------------------------------------------------------------
\* One cycle, statement by statement

\* The dicts a cycle can build, each of which a first run stores.
Snapshots == {r.current : r \in {x \in FetchResults : ~x.none /\ ~x.key_error}}

\* The process is in its loop, about to call check_for_changes, with any
\* dict the earlier cycles can have stored.
CycleInit ==
    /\ pc = "fetch"
    /\ exit_status = -1
    /\ interval = DefaultInterval
    /\ config_file = [kind |-> "json", keys |-> required_keys]
    /\ reported = [n \in names_to_monitor |-> <<>>]
    /\ previous_records_state \in Snapshots
    /\ old_state = previous_records_state
    /\ fetch = "none"
    /\ outcome = "none"
    /\ current_records_state = EmptyState
    /\ sent = <<>>
    /\ notifier = <<>>
    /\ notify_log = <<>>
    /\ all_records = [none |-> TRUE, records |-> <<>>]
    /\ position = 0
    /\ todo = <<>>
    /\ had_success = FALSE
    /\ prior_snapshot = EmptyState
    /\ fails = 0

\* The variables no statement of a cycle writes.
Fixed == <<interval, config_file, reported, old_state, had_success, prior_snapshot, fails>>

\* An exception leaves check_for_changes: the main loop's "except Exception"
\* prints it and calls sys.exit(1).
Uncaught ==
    /\ outcome' = "fault"
    /\ pc' = "exit"
    /\ exit_status' = 1
    /\ UNCHANGED previous_records_state

\* all_records = get_dnspod_records(domain, token), and the return on None
Fetch ==
    /\ pc = "fetch"
    /\ \E response \in Responses :
         LET result == get_dnspod_records(response)
         IN  /\ all_records' = result
             /\ fetch' = response.kind
             /\ IF result.none
                THEN outcome' = "fetch_failed" /\ pc' = "sleep"
                ELSE outcome' = outcome /\ pc' = "build"
    /\ UNCHANGED <<exit_status, previous_records_state, current_records_state,
                   sent, notifier, notify_log, position, todo, Fixed>>

\* One iteration of "for record in all_records"
BuildStep ==
    /\ pc = "build"
    /\ position < Len(all_records.records)
    /\ LET record == all_records.records[position + 1]
       IN  IF RaisesKeyError(<<record>>)
           THEN /\ Uncaught
                /\ UNCHANGED <<current_records_state, position>>
           ELSE /\ current_records_state' = AddRecord(current_records_state, record)
                /\ position' = position + 1
                /\ UNCHANGED <<pc, exit_status, outcome, previous_records_state>>
    /\ UNCHANGED <<fetch, sent, notifier, notify_log, all_records, todo, Fixed>>

\* The two tests after the build loop: first run, changed, or unchanged
Detect ==
    /\ pc = "build"
    /\ position = Len(all_records.records)
    /\ IF IsFirstRun(previous_records_state)
       THEN /\ outcome' = "first_run"
            /\ previous_records_state' = InitialisedState(current_records_state)
            /\ pc' = "sleep"
            /\ todo' = todo
       ELSE IF StateChanged(current_records_state, previous_records_state)
       THEN /\ \E order \in Orders(AllMonitoredNames(previous_records_state,
                                                      current_records_state)) :
                 todo' = order
            /\ pc' = "notify"
            /\ UNCHANGED <<outcome, previous_records_state>>
       ELSE /\ outcome' = "unchanged"
            /\ pc' = "sleep"
            /\ UNCHANGED <<previous_records_state, todo>>
    /\ UNCHANGED <<exit_status, fetch, current_records_state, sent, notifier,
                   notify_log, all_records, position, Fixed>>

\* One iteration of "for name in all_monitored_names"
NotifyStep ==
    /\ pc = "notify"
    /\ todo # <<>>
    /\ LET name == Head(todo)
           old_list == Sorted(Get(previous_records_state, name))
           new_list == Sorted(Get(current_records_state, name))
       IN  IF ListsDiffer(old_list, new_list)
           THEN \E response \in NotifierResponses :
                  LET result == send_telegram_message(response)
                  IN  /\ sent' = Append(sent, Message(name, old_list, new_list))
                      /\ notifier' = Append(notifier, response)
                      /\ notify_log' = notify_log \o result.log
                      /\ IF result.raised
                         THEN Uncaught /\ todo' = todo
                         ELSE /\ todo' = Tail(todo)
                              /\ UNCHANGED <<pc, exit_status, outcome,
                                             previous_records_state>>
           ELSE /\ todo' = Tail(todo)
                /\ UNCHANGED <<pc, exit_status, outcome, previous_records_state,
                               sent, notifier, notify_log>>
    /\ UNCHANGED <<fetch, current_records_state, all_records, position, Fixed>>

\* Update with the assignment indented into the body of the for loop: it
\* runs after every name.
UpdateIndented ==
    /\ pc = "notify"
    /\ previous_records_state' = UpdatedState(previous_records_state, current_records_state)
    /\ IF todo = <<>>
       THEN outcome' = "changed" /\ pc' = "sleep"
       ELSE UNCHANGED <<outcome, pc>>
    /\ UNCHANGED <<exit_status, fetch, current_records_state, sent, notifier,
                   notify_log, all_records, position, todo, Fixed>>

\* previous_records_state = current_records_state, after the for loop
Update ==
    /\ pc = "notify"
    /\ todo = <<>>
    /\ previous_records_state' = UpdatedState(previous_records_state, current_records_state)
    /\ outcome' = "changed"
    /\ pc' = "sleep"
    /\ UNCHANGED <<exit_status, fetch, current_records_state, sent, notifier,
                   notify_log, all_records, position, todo, Fixed>>

\* time.sleep, then the next call of check_for_changes with its fresh locals
Sleep ==
    /\ pc = "sleep"
    /\ pc' = "fetch"
    /\ old_state' = previous_records_state
    /\ fetch' = "none"
    /\ outcome' = "none"
    /\ current_records_state' = EmptyState
    /\ sent' = <<>>
    /\ notifier' = <<>>
    /\ notify_log' = <<>>
    /\ all_records' = [none |-> TRUE, records |-> <<>>]
    /\ position' = 0
    /\ todo' = <<>>
    /\ UNCHANGED <<exit_status, interval, config_file, reported,
                   previous_records_state, had_success, prior_snapshot, fails>>

CycleNext == Fetch \/ BuildStep \/ Detect \/ NotifyStep \/ Update \/ Sleep

CycleSpec == CycleInit /\ [][CycleNext]_vars

\* ------------------------------------------------------------------------
\* Vocabulary of the properties

\* The last cycle fetched the records and built current_records_state.
Built == fetch = "ok" /\ outcome # "fault"

\* The number of times e occurs in list.
Count(list, e) == Cardinality({i \in 1..Len(list) : list[i] = e})

\* The two lists hold the same records the same number of times.
SameMultiset(a, b) ==
    \A e \in {a[i] : i \in 1..Len(a)} \cup {b[i] : i \in 1..Len(b)} :
        Count(a, e) = Count(b, e)

\* The positions in sent of the messages about name n.
EventsFor(n) == {i \in 1..Len(sent) : sent[i].full_domain[1] = n}

\* The records a rendered list shows.
RecordsOf(display) ==
    IF display = <<[text |-> "无"]>> THEN <<>>
    ELSE [i \in 1..Len(display) |-> [type |-> display[i].type, value |-> display[i].value]]

\* The list is in ascending order of (type, value).
Ascending(list) ==
    \A i, j \in 1..Len(list) :
        i < j => \/ Rank(list[i].type) < Rank(list[j].type)
                 \/ /\ list[i].type = list[j].type
                    /\ Rank(list[i].value) <= Rank(list[j].value)

\* Name n has other records in the dict built by the last cycle than in the
\* dict built by the successful cycle before it.
ChangedSincePrior(n) ==
    ~SameMultiset(Get(prior_snapshot, n), Get(current_records_state, n))

\* ------------------------------------------------------------------------
\* Properties

\* C1: in every cycle whose fetch succeeds, other than the first such cycle,
\* every monitored name whose multiset of records differs from the one in the
\* snapshot of the previous successful cycle gets exactly one message.
C1_OneEventPerChangedName ==
    (Built /\ had_success) =>
        \A n \in names_to_monitor :
            ChangedSincePrior(n) => Cardinality(EventsFor(n)) = 1

\* C2: the first cycle whose fetch succeeds stores the snapshot it built as
\* previous_records_state and sends no message.
C2_FirstRunSuppression ==
    (Built /\ ~had_success) =>
        /\ sent = <<>>
        /\ previous_records_state = current_records_state

\* C2 witness: a first successful cycle that built a non-empty snapshot.
C2_Witness ==
    /\ Built /\ ~had_success
    /\ DOMAIN current_records_state = names_to_monitor
    /\ outcome = "first_run"

\* C3: once a cycle has completed with a successful fetch, the first-run
\* branch is never taken again.
C3_FirstRunBranchOnlyOnce ==
    outcome = "first_run" => ~had_success

\* C4: when the current snapshot is the baseline with the record lists of
\* some names permuted, no message is sent.
C4_OrderInsensitive ==
    (/\ Built
     /\ DOMAIN old_state = DOMAIN current_records_state
     /\ \A n \in DOMAIN old_state :
            SameMultiset(old_state[n], current_records_state[n])) =>
        sent = <<>>

\* C4 witness: the baseline was not empty and the cycle built a dict that
\* differs from it in the order of a list only.
C4_Witness ==
    /\ Built
    /\ outcome = "changed"
    /\ DOMAIN old_state = DOMAIN current_records_state
    /\ \A n \in DOMAIN old_state :
           SameMultiset(old_state[n], current_records_state[n])
    /\ \E n \in DOMAIN old_state : old_state[n] # current_records_state[n]

\* C5: no message is sent for a name whose multiset of records is the same in
\* the baseline and in the current snapshot, no name gets more than one
\* message in a cycle, and every message is about a monitored name.
C5_OnlyChangedNames ==
    Built =>
        /\ \A n \in names_to_monitor :
              /\ SameMultiset(Get(old_state, n), Get(current_records_state, n))
                    => EventsFor(n) = {}
              /\ Cardinality(EventsFor(n)) <= 1
        /\ \A i \in 1..Len(sent) : sent[i].full_domain[1] \in names_to_monitor

\* C5 witness: both names have records on both sides, one changed and was
\* notified, the other did not change.
C5_Witness ==
    /\ Built
    /\ DOMAIN old_state = names_to_monitor
    /\ DOMAIN current_records_state = names_to_monitor
    /\ old_state["api"] # current_records_state["api"]
    /\ old_state["www"] = current_records_state["www"]
    /\ Len(sent) = 1
    /\ sent[1].full_domain[1] = "api"

\* C6: every message about name n carries as old records the baseline's
\* records of n as they were when the cycle began and as new records the
\* current snapshot's records of n, each in ascending order of (type, value),
\* under the name n.domain.
C6_EventContent ==
    Built =>
        \A i \in 1..Len(sent) :
            LET n == sent[i].full_domain[1]
                shown_old == RecordsOf(sent[i].old)
                shown_new == RecordsOf(sent[i].new)
            IN  /\ sent[i].full_domain = <<n, domain>>
                /\ Len(shown_old) = Len(Get(old_state, n))
                /\ SameMultiset(shown_old, Get(old_state, n))
                /\ Ascending(shown_old)
                /\ Len(shown_new) = Len(Get(current_records_state, n))
                /\ SameMultiset(shown_new, Get(current_records_state, n))
                /\ Ascending(shown_new)

\* C6 witness: a record was added in front of the one www had; the message
\* shows the previous list and the previous list plus the added record.
C6_Witness ==
    /\ Built
    /\ old_state = [n \in {"www"} |-> <<[type |-> "A", value |-> "2.2.2.2"]>>]
    /\ current_records_state =
           [n \in {"www"} |-> <<[type |-> "A", value |-> "2.2.2.2"],
                                [type |-> "A", value |-> "1.1.1.1"]>>]
    /\ Len(sent) = 1
    /\ RecordsOf(sent[1].old) = <<[type |-> "A", value |-> "2.2.2.2"]>>
    /\ RecordsOf(sent[1].new) = <<[type |-> "A", value |-> "1.1.1.1"],
                                  [type |-> "A", value |-> "2.2.2.2"]>>

\* C7: when the baseline holds a record for a name and the current snapshot
\* holds none for it, exactly one message is sent for that name, with no new
\* record and with the baseline's records of the name as old records.
C7_Removal ==
    Built =>
        \A n \in names_to_monitor :
            (Len(Get(old_state, n)) > 0 /\ Len(Get(current_records_state, n)) = 0) =>
                /\ Cardinality(EventsFor(n)) = 1
                /\ \A i \in EventsFor(n) :
                      /\ RecordsOf(sent[i].new) = <<>>
                      /\ Len(RecordsOf(sent[i].old)) = Len(old_state[n])
                      /\ SameMultiset(RecordsOf(sent[i].old), old_state[n])

\* C7 witness: the baseline held records of both names and the current
\* snapshot is entirely empty.
C7_Witness ==
    /\ Built
    /\ DOMAIN old_state = names_to_monitor
    /\ DOMAIN current_records_state = {}
    /\ Len(sent) = 2

\* C8: a successful cycle whose snapshot is identical to the one of the
\* previous successful cycle sends no message.
C8_Idempotence ==
    (Built /\ had_success /\ current_records_state = prior_snapshot) =>
        sent = <<>>

\* C8 witness: a second successful cycle that built the same non-empty
\* snapshot as the one before it and went through the comparison.
C8_Witness ==
    /\ Built /\ had_success
    /\ current_records_state = prior_snapshot
    /\ DOMAIN current_records_state # {}
    /\ outcome = "unchanged"

\* C9: a cycle whose fetch fails makes no comparison, sends no message and
\* leaves previous_records_state as it was when the cycle began.
C9_FetchFailureSkipsCycle ==
    fetch \in FailureKinds =>
        /\ outcome = "fetch_failed"
        /\ sent = <<>>
        /\ previous_records_state = old_state
        /\ exit_status # 1

\* C9 witness: a fetch failed while a non-empty baseline was held.
C9_Witness ==
    /\ fetch \in FailureKinds
    /\ DOMAIN previous_records_state # {}
    /\ outcome = "fetch_failed"

\* C10: a failed fetch does not end the process, and the first successful
\* cycle after a run of failed fetches is compared with the snapshot of the
\* last successful cycle, so that every name that changed in between gets its
\* message in that cycle.
C10_ChangeReportedAfterFailures ==
    [][(fails > 0 /\ fetch' = "ok" /\ outcome' # "fault" /\ had_success') =>
          /\ exit_status' = -1
          /\ old_state' = prior_snapshot'
          /\ \A n \in names_to_monitor :
                ChangedSincePrior(n)' => Cardinality(EventsFor(n)') = 1]_vars

\* C11: at the end of every cycle whose fetch succeeded, the baseline holds,
\* for the same names and name by name as multisets, the snapshot built in
\* that cycle.
C11_BaselineIsLatestSnapshot ==
    Built =>
        /\ DOMAIN previous_records_state = DOMAIN current_records_state
        /\ \A n \in DOMAIN current_records_state :
              /\ Len(previous_records_state[n]) = Len(current_records_state[n])
              /\ SameMultiset(previous_records_state[n], current_records_state[n])

\* C11 witness: a cycle on a baseline that held both names built a snapshot
\* that lacks one of them and changes the other.
C11_Witness ==
    /\ Built
    /\ outcome = "changed"
    /\ DOMAIN old_state = names_to_monitor
    /\ DOMAIN current_records_state = {"www"}
    /\ old_state["www"] # current_records_state["www"]
    /\ DOMAIN previous_records_state = {"www"}

\* C12: in a cycle on an initialized baseline, the baseline is replaced by
\* the current snapshot when at least one message was sent, and is left as it
\* was, the order of its lists included, when none was sent.
C12_UpdateIffEvent ==
    (Built /\ had_success) =>
        /\ sent # <<>> => previous_records_state = current_records_state
        /\ sent = <<>> => previous_records_state = old_state

\* config.json cannot be used: it is missing, is not JSON, or lacks a
\* required key.
BadConfig ==
    \/ config_file.kind \in {"absent", "not_json"}
    \/ config_file.kind = "json" /\ ~(required_keys \subseteq config_file.keys)

\* C15: with a configuration file that is missing, is not JSON or lacks a
\* required key the process exits with status 1 and never runs a cycle; a
\* file that lacks only the check interval is accepted with an interval of 10
\* seconds.
C15_StartupGate ==
    /\ BadConfig =>
          /\ pc = "exit"
          /\ exit_status = 1
          /\ fetch = "none"
          /\ outcome = "none"
          /\ sent = <<>>
          /\ previous_records_state = EmptyState
    /\ (config_file.kind = "json" /\ config_file.keys = required_keys) =>
          /\ interval = DefaultInterval
          /\ pc # "load"
          /\ exit_status = 1 => outcome = "fault"

\* C15 witness: the file lacks one required key and has all the others, and
\* the process has exited.
C15_Witness ==
    /\ config_file.kind = "json"
    /\ config_file.keys = ConfigKeys \ {"token"}
    /\ pc = "exit"
    /\ exit_status = 1

\* The monitored names whose multiset of records differs between the baseline
\* the cycle began with and the dict it built.
ChangedNames ==
    {n \in names_to_monitor :
        ~SameMultiset(Get(old_state, n), Get(current_records_state, n))}

\* C13: when a sendMessage call of a cycle fails (network error or an answer
\* other than success), the process does not exit, the failure is printed,
\* and the cycle ends with one call made per changed name and the baseline
\* replaced by the current snapshot.
C13_NotifierFailureIsolated ==
    (\E i \in 1..Len(notifier) : notifier[i] # "ok") =>
        /\ exit_status # 1
        /\ pc \in {"notify", "sleep"}
        /\ Len(notify_log) = Len(sent)
        /\ \A i \in 1..Len(sent) : notifier[i] # "ok" => notify_log[i] # "sent"
        /\ pc = "sleep" =>
              /\ outcome = "changed"
              /\ Len(sent) = Cardinality(ChangedNames)
              /\ \A n \in ChangedNames : Cardinality(EventsFor(n)) = 1
              /\ previous_records_state = current_records_state

\* C13 witness: two names changed, the first call met a network error, the
\* second was still made, and the cycle is over.
C13_Witness ==
    /\ pc = "sleep"
    /\ Cardinality(ChangedNames) = 2
    /\ notifier = <<"network_error", "ok">>
    /\ Len(sent) = 2
    /\ previous_records_state = current_records_state

\* The {type, value} pairs of the records of list that carry name n, in the
\* order of the list.
RECURSIVE EntriesOf(_, _)
EntriesOf(list, n) ==
    IF list = <<>> THEN <<>>
    ELSE IF Head(list).name = n
         THEN <<[type |-> Head(list).type, value |-> Head(list).value]>>
                  \o EntriesOf(Tail(list), n)
         ELSE EntriesOf(Tail(list), n)

\* A dict whose keys are monitored names and whose lists are not empty.
WellShaped(state) ==
    /\ DOMAIN state \subseteq names_to_monitor
    /\ \A n \in DOMAIN state : state[n] # <<>>

\* C14: the dict a cycle builds has monitored names only as keys, maps each
\* key to a non-empty list, and holds for each monitored name exactly the
\* {type, value} pairs of the records of that name read so far, duplicates
\* kept, so that a name without a record is absent; the baseline has the same
\* shape.
C14_SnapshotShape ==
    /\ WellShaped(previous_records_state)
    /\ ~all_records.none =>
          /\ WellShaped(current_records_state)
          /\ \A n \in names_to_monitor :
                Get(current_records_state, n) =
                    EntriesOf(SubSeq(all_records.records, 1, position), n)
          /\ \A n \in names_to_monitor :
                (n \in DOMAIN current_records_state) <=>
                    \E i \in 1..position : all_records.records[i].name = n

\* C14 witness: the list held a record of www and the same record again; the
\* built dict holds it twice and has no key for api.
C14_Witness ==
    /\ pc = "sleep"
    /\ ~all_records.none
    /\ position = Len(all_records.records)
    /\ position >= 2
    /\ all_records.records[1] = [name |-> "www", type |-> "A", value |-> "1.1.1.1"]
    /\ all_records.records[2] = all_records.records[1]
    /\ DOMAIN current_records_state = {"www"}
    /\ Len(current_records_state["www"]) >= 2
    /\ current_records_state["www"][1] = current_records_state["www"][2]

\* C16: while the for loop over the names runs, the baseline is the one the
\* cycle began with, so every message takes its old records from that
\* baseline; the cycle that ends as changed has replaced the baseline by the
\* whole current dict.
C16_WholeUnitReplacement ==
    /\ pc \in {"build", "notify"} => previous_records_state = old_state
    /\ \A i \in 1..Len(sent) :
          /\ Len(RecordsOf(sent[i].old)) = Len(Get(old_state, sent[i].full_domain[1]))
          /\ SameMultiset(RecordsOf(sent[i].old), Get(old_state, sent[i].full_domain[1]))
    /\ outcome = "changed" =>
          /\ todo = <<>>
          /\ Len(notifier) = Len(sent)
          /\ previous_records_state = current_records_state

\* C16 witness: in the middle of the loop, one message sent and one name left
\* to visit, the baseline is still the old one.
C16_Witness ==
    /\ pc = "notify"
    /\ Len(sent) = 1
    /\ Len(todo) = 1
    /\ ~SameMultiset(Get(old_state, Head(todo)), Get(current_records_state, Head(todo)))
    /\ previous_records_state = old_state
    /\ previous_records_state # current_records_state

\* The list holds a record of a monitored name that lacks type or value.
MalformedMonitored(list) ==
    \E i \in 1..Len(list) :
        /\ list[i].name \in names_to_monitor
        /\ ("type" \notin DOMAIN list[i] \/ "value" \notin DOMAIN list[i])

\* C17: a fetched list with a record of a monitored name that lacks type or
\* value ends the process with status 1 in that cycle, with no message sent
\* and the baseline untouched, and no statement runs after that; a list whose
\* only malformed records carry other names does not.
C17_FailFast ==
    /\ (~all_records.none /\ pc # "build") =>
          (MalformedMonitored(all_records.records) <=> outcome = "fault")
    /\ outcome = "fault" =>
          /\ pc = "exit"
          /\ exit_status = 1
          /\ sent = <<>>
          /\ previous_records_state = old_state
          /\ ~ENABLED CycleNext
    /\ exit_status = 1 => outcome = "fault"

\* C17 witness: the process has exited on a list whose first record was well
\* formed, with a baseline that held records.
C17_Witness ==
    /\ outcome = "fault"
    /\ pc = "exit"
    /\ position = 1
    /\ DOMAIN previous_records_state # {}
    /\ MalformedMonitored(all_records.records)

\* C18: the messages a cycle sends, and their order, are a function of the
\* baseline and the current dict: every order in which the set of names can
\* be iterated yields the sequence that was sent.
C18_DeterministicOrder ==
    outcome = "changed" =>
        \A order \in Orders(AllMonitoredNames(old_state, current_records_state)) :
            NotifyLoop(order, old_state, current_records_state) = sent

\* C19: the old records of every message about a name are, as a multiset,
\* the new records of the previous message about that name or, when there
\* was none, the records of the name in the dict of the first cycle that
\* fetched.
C19_ContinuousHistory ==
    [][(pc = "loop" /\ pc' = "loop") =>
          \A i \in 1..Len(sent') :
              /\ Len(RecordsOf(sent'[i].old)) = Len(reported[sent'[i].full_domain[1]])
              /\ SameMultiset(RecordsOf(sent'[i].old), reported[sent'[i].full_domain[1]])]_vars
====
